---- MODULE Spec2Model ----
(***************************************************************************)
(* molecule/utilities.py: merge_dicts and format_instance_name.            *)
(*                                                                         *)
(* Python dicts are mutable objects, so the model keeps a heap: a sequence *)
(* of dict objects, addressed by their index.  A value stored under a key  *)
(* is either a leaf (an immutable scalar) or a reference to a dict object. *)
(* Two trees alias when a dict object is reachable from both.              *)
(***************************************************************************)
EXTENDS Integers, Sequences, FiniteSets, TLC

VARIABLES
    heap,       \* the dict objects: heap[a] is a function from keys to values
    target,     \* address of the dict the caller merges into (parameter a)
    source,     \* address of the caller's dict S (parameter b of merge_dicts(T, S))
    order,      \* the order in which "for key in b" yields keys
    hist,       \* the operations performed so far
    b,          \* address of the b operand of the latest merge_dicts call
    err,        \* the latest merge_dicts call raised LookupError
    msg,        \* the message of that LookupError
    ret,        \* the address the latest merge_dicts call returned (0: none)
    preT,       \* content of target before the latest merge_dicts call
    preB,       \* content of b before the latest merge_dicts call
    preShared,  \* target and b shared a dict object before the latest call
    tgt0,       \* content of target after construction
    src0,       \* content of source after construction
    mutPath,    \* path of the dict the caller mutated last
    name,       \* format_instance_name: parameter name
    platform,   \* format_instance_name: parameter platform
    instances,  \* format_instance_name: parameter instances
    fmtDone,    \* format_instance_name has returned
    fmtResult   \* its return value

mergeVars == <<heap, target, source, order, hist, b, err, msg, ret,
               preT, preB, preShared, tgt0, src0, mutPath>>
fmtVars == <<name, platform, instances, fmtDone, fmtResult>>
vars == <<mergeVars, fmtVars>>

(***************************************************************************)
(* Bounds of the model.                                                    *)
(***************************************************************************)
KeySeq == <<"x", "y">>
Keys == {KeySeq[i] : i \in DOMAIN KeySeq}
Leaves == {1, 2}
MaxDepth == 2       \* nesting depth of the dicts built by the caller
MaxTargetSize == 2      \* number of keys, at all levels, of T
MaxSourceSize == 4      \* number of keys, at all levels, of S
MaxSeqTargetSize == 1   \* the same, where further operations follow the merge
MaxSeqSourceSize == 2
MaxOtherSize == 1       \* number of keys of a further dict merged into T
MaxInstances == 2   \* length of the instances list

Orders == {o \in [DOMAIN KeySeq -> Keys] : \A i, j \in DOMAIN o : o[i] = o[j] => i = j}

(***************************************************************************)
(* Values and dict objects.                                                *)
(***************************************************************************)
Leaf(n) == [tag |-> "leaf", v |-> n]
Ref(a) == [tag |-> "dict", v |-> a]
IsDict(val) == val.tag = "dict"
EmptyDict == [k \in {} |-> Leaf(0)]

\* a[key] = val
SetItem(h, a, key, val) == [h EXCEPT ![a] = (key :> val) @@ @]

\* The keys of dict a, in iteration order.
KeysOf(h, a, ord) == SelectSeq(ord, LAMBDA k : k \in DOMAIN h[a])

(***************************************************************************)
(* The content of a tree: the set of its entries, one per path from the    *)
(* root, the root included.  Two trees are equal (Python ==) iff their     *)
(* contents are.                                                           *)
(***************************************************************************)
Entry(p, tag, v) == [p |-> p, tag |-> tag, v |-> v]

RECURSIVE ContentAt(_, _, _)
ContentAt(h, val, p) ==
    IF IsDict(val)
    THEN {Entry(p, "dict", 0)} \cup
         UNION {ContentAt(h, h[val.v][k], Append(p, k)) : k \in DOMAIN h[val.v]}
    ELSE {Entry(p, "leaf", val.v)}

Content(h, a) == ContentAt(h, Ref(a), <<>>)

\* The dict objects reachable from dict a, a included.
RECURSIVE Reach(_, _)
Reach(h, a) ==
    {a} \cup UNION {Reach(h, h[a][k].v) : k \in {k \in DOMAIN h[a] : IsDict(h[a][k])}}

\* The address of the dict at path p below dict a (0: there is none).
RECURSIVE AddrAt(_, _, _)
AddrAt(h, a, p) ==
    IF p = <<>> THEN a
    ELSE IF Head(p) \in DOMAIN h[a] /\ IsDict(h[a][Head(p)])
         THEN AddrAt(h, h[a][Head(p)].v, Tail(p))
         ELSE 0

(***************************************************************************)
(* copy.deepcopy of a dict: a new dict object for the dict and for every   *)
(* dict below it; leaves are immutable and are shared.                     *)
(***************************************************************************)
RECURSIVE DeepCopy(_, _)
RECURSIVE CopyItems(_, _, _, _)
CopyItems(h, src, dst, ks) ==
    IF ks = <<>> THEN h
    ELSE LET key == Head(ks)
             val == h[src][key]
         IN  IF IsDict(val)
             THEN LET c == DeepCopy(h, val.v)
                  IN  CopyItems(SetItem(c.heap, dst, key, Ref(c.addr)), src, dst, Tail(ks))
             ELSE CopyItems(SetItem(h, dst, key, val), src, dst, Tail(ks))

DeepCopy(h, a) ==
    LET dst == Len(h) + 1
    IN  [heap |-> CopyItems(Append(h, EmptyDict), a, dst, KeysOf(h, a, KeySeq)),
         addr |-> dst]

(***************************************************************************)
(* merge_dicts(a, b, raise_conflicts, path)                                *)
(***************************************************************************)
\* Mutant: the test for identical values never succeeds.
PyEqNever(h, va, vb) == FALSE

\* a[key] == b[key] for two values: equal leaves, or dicts of equal content.
PyEq(h, va, vb) ==
    IF IsDict(va) /\ IsDict(vb) THEN ContentAt(h, va, <<>>) = ContentAt(h, vb, <<>>)
    ELSE IF IsDict(va) \/ IsDict(vb) THEN FALSE
    ELSE va.v = vb.v

\* sep.join(seq)
RECURSIVE Join(_, _)
Join(seq, sep) ==
    IF seq = <<>> THEN ""
    ELSE IF Len(seq) = 1 THEN seq[1]
    ELSE seq[1] \o sep \o Join(Tail(seq), sep)

\* Mutant: the message names the key without the path that leads to it.
ConflictMsgKeyOnly(path, key) == "Conflict at '" \o key \o "'"

\* "Conflict at '{path}'".format(path='.'.join(path + [str(key)]))
ConflictMsg(path, key) == "Conflict at '" \o Join(Append(path, key), ".") \o "'"

RECURSIVE merge_dicts(_, _, _, _, _, _)
RECURSIVE MergeLoop(_, _, _, _, _, _, _)

\* Mutant: a dict is imported by reference, without copy.deepcopy.
ImportedAlias(h, val) == [heap |-> h, val |-> val]

\* Mutant: a dict is imported as a new dict that lacks its items.
ImportedEmpty(h, val) ==
    IF IsDict(val)
    THEN [heap |-> Append(h, EmptyDict), val |-> Ref(Len(h) + 1)]
    ELSE [heap |-> h, val |-> val]

\* The value stored when the key is absent from a:
\* copy.deepcopy(b[key]) if isinstance(b[key], dict) else b[key]
Imported(h, val) ==
    IF IsDict(val)
    THEN LET c == DeepCopy(h, val.v) IN [heap |-> c.heap, val |-> Ref(c.addr)]
    ELSE [heap |-> h, val |-> val]

\* Mutant: the value of a is kept.
ReplacementKeep(va, vb) == va

\* The value stored when a[key] (va) is replaced by b[key] (vb): b[key] itself.
Replacement(va, vb) == vb

\* Mutant: the recursive call merges a[key] into b[key].
PresentSwapped(st, a, bb, raise, path, key, ord) ==
    LET h == st.heap
    IN  IF IsDict(h[a][key]) /\ IsDict(h[bb][key])
        THEN LET r == merge_dicts(h, h[bb][key].v, h[a][key].v, raise,
                                  Append(path, key), ord)
             IN  [heap |-> r.heap, err |-> r.err, msg |-> r.msg]
        ELSE IF PyEq(h, h[a][key], h[bb][key])
        THEN st
        ELSE IF raise
        THEN [heap |-> h, err |-> TRUE, msg |-> ConflictMsg(path, key)]
        ELSE [st EXCEPT !.heap = SetItem(h, a, key, Replacement(h[a][key], h[bb][key]))]

\* The key exists in both dicts.
Present(st, a, bb, raise, path, key, ord) ==
    LET h == st.heap
    IN  IF IsDict(h[a][key]) /\ IsDict(h[bb][key])
        THEN LET r == merge_dicts(h, h[a][key].v, h[bb][key].v, raise,
                                  Append(path, key), ord)
             IN  [heap |-> r.heap, err |-> r.err, msg |-> r.msg]
        ELSE IF PyEq(h, h[a][key], h[bb][key])
        THEN st
        ELSE IF raise
        THEN [heap |-> h, err |-> TRUE, msg |-> ConflictMsg(path, key)]
        ELSE [st EXCEPT !.heap = SetItem(h, a, key, Replacement(h[a][key], h[bb][key]))]

\* Mutant: a key that a lacks is not imported.
AbsentSkipped(st, a, bb, key) == st

\* The key does not exist in a: import it.
Absent(st, a, bb, key) ==
    LET n == Imported(st.heap, st.heap[bb][key])
    IN  [st EXCEPT !.heap = SetItem(n.heap, a, key, n.val)]

\* The body of the loop, for one key of b.
MergeKey(st, a, bb, raise, path, key, ord) ==
    IF key \in DOMAIN st.heap[a]
    THEN Present(st, a, bb, raise, path, key, ord)
    ELSE Absent(st, a, bb, key)

\* Mutant: the loop goes on after a conflict and reports the first one.
RECURSIVE MergeLoopNoStop(_, _, _, _, _, _, _)
MergeLoopNoStop(st, a, bb, raise, path, ks, ord) ==
    IF ks = <<>> THEN st
    ELSE LET n == MergeKey([st EXCEPT !.err = FALSE], a, bb, raise, path, Head(ks), ord)
         IN  MergeLoopNoStop(IF st.err THEN [n EXCEPT !.err = TRUE, !.msg = st.msg] ELSE n,
                             a, bb, raise, path, Tail(ks), ord)

\* for key in b: the exception of one iteration ends the loop.
MergeLoop(st, a, bb, raise, path, ks, ord) ==
    IF ks = <<>> \/ st.err THEN st
    ELSE MergeLoop(MergeKey(st, a, bb, raise, path, Head(ks), ord),
                   a, bb, raise, path, Tail(ks), ord)

merge_dicts(h, a, bb, raise, path, ord) ==
    LET st == MergeLoop([heap |-> h, err |-> FALSE, msg |-> ""],
                        a, bb, raise, path, KeysOf(h, bb, ord), ord)
    IN  [heap |-> st.heap, err |-> st.err, msg |-> st.msg,
         ret |-> IF st.err THEN 0 ELSE a]

(***************************************************************************)
(* The dicts the caller builds: every tree over Keys and Leaves of depth   *)
(* at most d, given by its content.                                        *)
(***************************************************************************)
Below(k, c) == {[e EXCEPT !.p = <<k>> \o @] : e \in c}
Sub(c, k) == {[e EXCEPT !.p = Tail(@)] : e \in {e \in c : e.p # <<>> /\ e.p[1] = k}}

RECURSIVE DictShapes(_)
DictShapes(d) ==
    IF d = 0 THEN {}
    ELSE LET opts == {{}} \cup {{Entry(<<>>, "leaf", n)} : n \in Leaves} \cup DictShapes(d - 1)
         IN  {{Entry(<<>>, "dict", 0)} \cup UNION {Below(k, f[k]) : k \in Keys} :
                 f \in [Keys -> opts]}

AllTrees == DictShapes(MaxDepth)
Trees(size) == {c \in AllTrees : Cardinality(c) - 1 <= size}
TargetTrees == Trees(MaxTargetSize)
SourceTrees == Trees(MaxSourceSize)
SeqTargetTrees == Trees(MaxSeqTargetSize)
SeqSourceTrees == Trees(MaxSeqSourceSize)
OtherTrees == Trees(MaxOtherSize)

\* The dict literal of content c, built on heap h.
RECURSIVE Build(_, _)
RECURSIVE BuildItems(_, _, _, _)
BuildItems(h, c, dst, ks) ==
    IF ks = <<>> THEN h
    ELSE LET key == Head(ks)
             sub == Sub(c, key)
             root == CHOOSE e \in sub : e.p = <<>>
         IN  IF root.tag = "dict"
             THEN LET n == Build(h, sub)
                  IN  BuildItems(SetItem(n.heap, dst, key, Ref(n.addr)), c, dst, Tail(ks))
             ELSE BuildItems(SetItem(h, dst, key, Leaf(root.v)), c, dst, Tail(ks))

Build(h, c) ==
    LET dst == Len(h) + 1
    IN  [heap |-> BuildItems(Append(h, EmptyDict), c, dst,
                             SelectSeq(KeySeq, LAMBDA k : \E e \in c : e.p = <<k>>)),
         addr |-> dst]

(***************************************************************************)
(* format_instance_name(name, platform, instances)                         *)
(***************************************************************************)
NoResult == [isNone |-> TRUE, s |-> ""]
Str(s) == [isNone |-> FALSE, s |-> s]

Names == {"web", "db"}
Platforms == {"ec2", "vm"}
FlagKey == "append_platform_to_hostname"

\* The values of an instance's 'options': None, or a dict that may hold the flag.
OptionDicts == {EmptyDict} \cup {(FlagKey :> f) : f \in BOOLEAN}
OptionValues == {[isNone |-> TRUE, d |-> EmptyDict]} \cup
                {[isNone |-> FALSE, d |-> d] : d \in OptionDicts}
\* An instance record: its name, and its 'options' key when it has one.
Instances == {[name |-> n, hasOptions |-> FALSE, options |-> [isNone |-> TRUE, d |-> EmptyDict]] :
                 n \in Names} \cup
             {[name |-> n, hasOptions |-> TRUE, options |-> o] :
                 n \in Names, o \in OptionValues}

\* working_instance.get('options')
GetOptions(inst) ==
    IF inst.hasOptions THEN inst.options ELSE [isNone |-> TRUE, d |-> EmptyDict]

\* working_instance['options'].get('append_platform_to_hostname'), as a condition
GetFlag(opts) == FlagKey \in DOMAIN opts.d /\ opts.d[FlagKey]

\* Mutant: the loop has no break, the last instance named nm is kept.
RECURSIVE SearchLast(_, _, _)
SearchLast(insts, nm, i) ==
    IF i > Len(insts) THEN 0
    ELSE LET later == SearchLast(insts, nm, i + 1)
         IN  IF later # 0 THEN later
             ELSE IF insts[i].name = nm THEN i
             ELSE 0

\* The loop over instances with its break: the index of the instance found
\* (0: working_instance stays None).
RECURSIVE Search(_, _, _)
Search(insts, nm, i) ==
    IF i > Len(insts) THEN 0
    ELSE IF insts[i].name = nm THEN i
    ELSE Search(insts, nm, i + 1)

format_instance_name(nm, plat, insts) ==
    LET i == Search(insts, nm, 1)
    IN  IF i = 0 THEN NoResult
        ELSE IF GetOptions(insts[i]).isNone THEN Str(nm)
        ELSE IF GetFlag(insts[i].options) THEN Str(nm \o "-" \o plat)
        ELSE Str(nm)

(***************************************************************************)
(* The caller: it builds T and S, merges S into T, and then merges again   *)
(* or mutates the dict the call returned.                                  *)
(***************************************************************************)
FmtIdle ==
    /\ name = ""
    /\ platform = ""
    /\ instances = <<>>
    /\ fmtDone = FALSE
    /\ fmtResult = NoResult

MergeIdle ==
    /\ heap = <<>>
    /\ target = 0
    /\ source = 0
    /\ order = KeySeq
    /\ hist = <<>>
    /\ b = 0
    /\ err = FALSE
    /\ msg = ""
    /\ ret = 0
    /\ preT = {}
    /\ preB = {}
    /\ preShared = FALSE
    /\ tgt0 = {}
    /\ src0 = {}
    /\ mutPath = <<>>

\* T = {...}; S = {...}, drawn from ts and ss
InitWith(ts, ss) ==
    /\ \E tc \in ts, sc \in ss :
          LET t == Build(<<>>, tc)
              s == Build(t.heap, sc)
          IN  /\ heap = s.heap
              /\ target = t.addr
              /\ source = s.addr
              /\ preT = tc
              /\ tgt0 = tc
              /\ src0 = sc
    /\ order \in Orders
    /\ hist = <<>>
    /\ b = 0
    /\ err = FALSE
    /\ msg = ""
    /\ ret = 0
    /\ preB = {}
    /\ preShared = FALSE
    /\ mutPath = <<>>
    /\ FmtIdle

Init == InitWith(TargetTrees, SourceTrees)
InitSeq == InitWith(SeqTargetTrees, SeqSourceTrees)

\* merge_dicts(target, bb, raise_conflicts=raise) on heap h; the caller
\* passes no path, which the function turns into the empty list.
Call(h, bb, raise, opname) ==
    LET r == merge_dicts(h, target, bb, raise, <<>>, order)
    IN  /\ heap' = r.heap
        /\ err' = r.err
        /\ msg' = r.msg
        /\ ret' = r.ret
        /\ b' = bb
        /\ preT' = Content(h, target)
        /\ preB' = Content(h, bb)
        /\ preShared' = (Reach(h, target) \cap Reach(h, bb) # {})
        /\ hist' = Append(hist, [op |-> opname, raise |-> raise])
        /\ UNCHANGED <<target, source, order, tgt0, src0, mutPath, fmtVars>>

\* merge_dicts(T, S, raise_conflicts=raise)
MergeSource(raise) == Call(heap, source, raise, "merge_source")

\* merge_dicts(T, {...}, raise_conflicts=raise) with a dict built for the call
MergeOther(c, raise) ==
    LET n == Build(heap, c) IN Call(n.heap, n.addr, raise, "merge_other")

\* R[p1]...[pn][key] = n, on the dict R the latest call returned
Mutate(p, key, n) ==
    /\ ret # 0
    /\ AddrAt(heap, ret, p) # 0
    /\ heap' = SetItem(heap, AddrAt(heap, ret, p), key, Leaf(n))
    /\ hist' = Append(hist, [op |-> "mutate", raise |-> FALSE])
    /\ mutPath' = p
    /\ UNCHANGED <<target, source, order, b, err, msg, ret, preT, preB, preShared,
                   tgt0, src0, fmtVars>>

RECURSIVE PathsUpTo(_)
PathsUpTo(n) ==
    IF n = 0 THEN {<<>>}
    ELSE PathsUpTo(n - 1) \cup {Append(p, k) : p \in PathsUpTo(n - 1), k \in Keys}

\* The paths at which the caller's dicts can hold a dict.
DictPaths == PathsUpTo(MaxDepth - 1)

\* One call of merge_dicts(T, S).
Next == hist = <<>> /\ \E raise \in BOOLEAN : MergeSource(raise)

Spec == Init /\ [][Next]_vars

\* R = merge_dicts(T, S), followed by one more operation on R.
NextSeq ==
    \/ hist = <<>> /\ \E raise \in BOOLEAN : MergeSource(raise)
    \/ Len(hist) = 1 /\ \E raise \in BOOLEAN : MergeSource(raise)
    \/ Len(hist) = 1 /\ \E c \in OtherTrees, raise \in BOOLEAN : MergeOther(c, raise)
    \/ Len(hist) = 1 /\ \E p \in DictPaths, key \in Keys, n \in Leaves :
                           Mutate(p, key, n)

SpecSeq == InitSeq /\ [][NextSeq]_vars

\* One call of format_instance_name.
RECURSIVE SeqsUpTo(_, _)
SeqsUpTo(S, n) ==
    IF n = 0 THEN {<<>>}
    ELSE SeqsUpTo(S, n - 1) \cup {Append(q, x) : q \in SeqsUpTo(S, n - 1), x \in S}

InitFmt ==
    /\ MergeIdle
    /\ name \in Names
    /\ platform \in Platforms
    /\ instances \in SeqsUpTo(Instances, MaxInstances)
    /\ fmtDone = FALSE
    /\ fmtResult = NoResult

FormatInstanceName ==
    /\ ~fmtDone
    /\ fmtDone' = TRUE
    /\ fmtResult' = format_instance_name(name, platform, instances)
    /\ UNCHANGED <<name, platform, instances, mergeVars>>

NextFmt == FormatInstanceName

SpecFmt == InitFmt /\ [][NextFmt]_vars

(***************************************************************************)
(* Vocabulary of the properties: trees as contents.                        *)
(***************************************************************************)
Pre(p, n) == SubSeq(p, 1, n)
Has(c, p) == \E e \in c : e.p = p
DictAt(c, p) == Entry(p, "dict", 0) \in c
LeafAt(c, p) == \E e \in c : e.p = p /\ e.tag = "leaf"
\* The subtree of c at path p.
Under(c, p) == {e \in c : Len(e.p) >= Len(p) /\ Pre(e.p, Len(p)) = p}
PathsOf(c) == {e.p : e \in c}
Pos(ord, k) == CHOOSE i \in DOMAIN ord : ord[i] = k

\* The merge of A and B reaches key p[Len(p)] of B: the dicts above it
\* exist in both trees.
Visited(A, B, p) ==
    /\ p # <<>>
    /\ Has(B, p)
    /\ \A i \in 1..(Len(p) - 1) : DictAt(A, Pre(p, i)) /\ DictAt(B, Pre(p, i))

\* Both trees hold a value at p, the values differ and are not both dicts.
ConflictAt(A, B, p) ==
    /\ Visited(A, B, p)
    /\ Has(A, p)
    /\ ~(DictAt(A, p) /\ DictAt(B, p))
    /\ \A e \in A, f \in B : e.p = p /\ f.p = p => e # f

\* The same, and neither value is a dict.
LeafConflictAt(A, B, p) ==
    /\ ConflictAt(A, B, p)
    /\ LeafAt(A, p)
    /\ LeafAt(B, p)

\* The right-biased recursive union of A and B: all of B, and what of A
\* lies under no key of B, or under keys that hold dicts in both.
RightUnion(A, B) ==
    B \cup {e \in A : \A i \in 1..Len(e.p) :
                Has(B, Pre(e.p, i)) => DictAt(A, Pre(e.p, i)) /\ DictAt(B, Pre(e.p, i))}

Dotted(p) == "Conflict at '" \o Join(p, ".") \o "'"

LastOp == hist[Len(hist)]
Merged == hist # <<>> /\ LastOp.op \in {"merge_source", "merge_other"}
Mutated == hist # <<>> /\ LastOp.op = "mutate"
Overwrite == [op |-> "merge_source", raise |-> FALSE]
Now == Content(heap, target)

(***************************************************************************)
(* C1: after R = merge_dicts(T, S) without raise_conflicts, R shares no    *)
(* dict object with S, and whatever is done to R afterwards, S keeps the   *)
(* content it was built with.                                              *)
(***************************************************************************)
C1_NoAliasing ==
    (hist # <<>> /\ hist[1] = Overwrite) =>
        /\ Len(hist) = 1 => Reach(heap, target) \cap Reach(heap, source) = {}
        /\ Content(heap, source) = src0

C3_OnlyLeafConflicts ==
    (Merged /\ err) =>
        /\ LastOp.raise
        /\ \E p \in PathsOf(preB) : LeafConflictAt(preT, preB, p) /\ msg = Dotted(p)

(***************************************************************************)
(* C3 amended: a call raises only with raise_conflicts, and only for a key *)
(* present in both trees whose two values differ and are not both dicts.   *)
(***************************************************************************)
C3_OnlyConflicts ==
    (Merged /\ err) =>
        /\ LastOp.raise
        /\ \E p \in PathsOf(preB) : ConflictAt(preT, preB, p) /\ msg = Dotted(p)

C3_Witness ==
    /\ Merged
    /\ err
    /\ \E p \in PathsOf(preB) : msg = Dotted(p) /\ LeafAt(preT, p) /\ DictAt(preB, p)

(***************************************************************************)
(* C4: merging S into T a second time, without raise_conflicts, leaves the *)
(* content the first merge produced.                                       *)
(***************************************************************************)
C4_Idempotent ==
    (Len(hist) = 2 /\ hist[1] = Overwrite /\ hist[2] = Overwrite) =>
        /\ ~err
        /\ Now = preT

C4_Witness ==
    /\ Len(hist) = 2 /\ hist[1] = Overwrite /\ hist[2] = Overwrite
    /\ preT # tgt0
    /\ preT # src0
    /\ \E p \in PathsOf(src0) : Len(p) = 2

(***************************************************************************)
(* C5: without raise_conflicts the call returns the target dict itself,    *)
(* whose content is the right-biased recursive union of T and S.           *)
(***************************************************************************)
C5_RightBiasedUnion ==
    (Merged /\ ~LastOp.raise /\ ~preShared) =>
        /\ ~err
        /\ ret = target
        /\ Now = RightUnion(preT, preB)

C5_Witness ==
    /\ Merged /\ ~LastOp.raise
    /\ \E p \in PathsOf(preB) : LeafConflictAt(preT, preB, p) /\ Len(p) = 2
    /\ \E p \in PathsOf(preB) : Len(p) = 1 /\ ~Has(preT, p)
    /\ Now # preT

(***************************************************************************)
(* C6: when T and S have no key in common, the call succeeds under both    *)
(* policies and the content of T becomes the union of the two trees.       *)
(***************************************************************************)
NoOverlap(A, B) == \A k \in Keys : ~(Has(A, <<k>>) /\ Has(B, <<k>>))

C6_DisjointUnion ==
    (Merged /\ ~preShared /\ NoOverlap(preT, preB)) =>
        /\ ~err
        /\ ret = target
        /\ Now = preT \cup preB

C6_Witness ==
    /\ Merged /\ LastOp.raise
    /\ NoOverlap(preT, preB)
    /\ \E p \in PathsOf(preT) : Len(p) = 1
    /\ \E p \in PathsOf(preB) : Len(p) = 2

(***************************************************************************)
(* C7: one call of merge_dicts, returning or raising, leaves the content   *)
(* of its b operand as it was.                                             *)
(***************************************************************************)
C7_SourceUnchanged ==
    (Merged /\ ~preShared) => Content(heap, b) = preB

C7_Witness ==
    /\ Merged
    /\ err
    /\ Now # preT

(***************************************************************************)
(* C8: when the call raises at path p, then at every level along p the     *)
(* keys iterated before the one on p are merged in full, the keys iterated *)
(* after it and the conflicting key itself hold what they held before.     *)
(***************************************************************************)
C8_FailFast ==
    (Merged /\ err) =>
        \E p \in PathsOf(preB) :
            /\ msg = Dotted(p)
            /\ \A i \in 1..Len(p), k \in Keys :
                  LET q == Append(Pre(p, i - 1), k)
                  IN  IF Pos(order, k) < Pos(order, p[i])
                      THEN Under(Now, q) = Under(RightUnion(preT, preB), q)
                      ELSE IF Pos(order, k) > Pos(order, p[i]) \/ i = Len(p)
                      THEN Under(Now, q) = Under(preT, q)
                      ELSE DictAt(Now, q)

C8_Witness ==
    /\ Merged
    /\ err
    /\ msg = "Conflict at 'x.y'"
    /\ Now # preT
    /\ \E k \in Keys : Has(preB, <<k>>) /\ ~Has(Now, <<k>>)

(***************************************************************************)
(* C9: a key of S that the call inserts into T holds S's value, and when   *)
(* that value is a dict it is a copy: no dict object of it is reachable    *)
(* from S, and mutating it in R leaves the content of S as it was.         *)
(***************************************************************************)
InsertedAt(p) == Visited(preT, preB, p) /\ ~Has(preT, p)

C10_FirstMatch ==
    fmtDone =>
        LET M == {i \in DOMAIN instances : instances[i].name = name}
        IN  IF M = {} THEN fmtResult = NoResult
            ELSE LET i == CHOOSE j \in M : \A l \in M : j <= l
                     inst == instances[i]
                 IN  /\ ~fmtResult.isNone
                     /\ fmtResult.s =
                           IF inst.hasOptions /\ ~inst.options.isNone
                              /\ inst.options.d = (FlagKey :> TRUE)
                           THEN name \o "-" \o platform
                           ELSE name

C10_Witness ==
    /\ fmtDone
    /\ Len(instances) = 2
    /\ instances[1].name = name
    /\ instances[2].name = name
    /\ instances[1].hasOptions /\ instances[1].options.d = (FlagKey :> TRUE)
    /\ ~instances[2].hasOptions
    /\ fmtResult = Str("web-ec2")

====
